---- MODULE Spec2Model ----
(***************************************************************************)
(* Model of the algorithmia Rust client.                                   *)
(*                                                                         *)
(*   - DirectoryListing (data/dir.rs): the lazy, paginated iterator over   *)
(*     the folders and files of a remote data directory.                   *)
(*   - EntryPoint::apply (algo/algorithm.rs): dispatch of an AlgoInput to  *)
(*     apply_str / apply_json / apply_bytes with a one-hop fallback.       *)
(*   - AlgoResponse::from_str (algo/algorithm.rs): decoding of a response  *)
(*     body into an AlgoResponse or an error.                              *)
(***************************************************************************)
EXTENDS Integers, Sequences, FiniteSets, TLC

\* ------------------------------------------------------------------ bounds
\* Largest number of pages in the server's chain of listing pages.
MaxPages == 2
\* Largest number of folders, and of files, on one page.
MaxPerPage == 2
\* Largest number of failed page fetches in one behaviour.
MaxFailures == 1

\* ==================================================================
\* Directory listing
\* ==================================================================

VARIABLES
    pages,        \* the server's chain of listing pages (fixed by Init)
    folders,      \* DirectoryListing.folders: folders not yet yielded
    files,        \* DirectoryListing.files: files not yet yielded
    marker,       \* DirectoryListing.marker
    query_count,  \* DirectoryListing.query_count
    ret,          \* what the last call of next() returned
    out,          \* every Some(..) item next() has returned, oldest first
    fetchLog,     \* every get_directory request issued, oldest first
    callFetches   \* number of get_directory requests of the last next()

\* Option::None of DirectoryListing.marker and DirectoryShow.marker; a
\* Some(marker) is the index (>= 2) of the page the server hands out for it.
NoMarker == 0

\* The FolderItem values of page p that has nf folders.
FolderItems(p, nf) == [i \in 1..nf |-> [name |-> <<"d", p, i>>]]

\* The FileItem values of page p that has nl files.
FileItems(p, nl) == [i \in 1..nl |-> [filename |-> <<"f", p, i>>, size |-> 10 * p + i]]

\* A page as the server sends it: DirectoryShow after decoding.  shape gives
\* the number of folders and files; last tells whether the chain ends here.
DirectoryShow(p, shape, last) ==
    [folders |-> FolderItems(p, shape[1]),
     files   |-> FileItems(p, shape[2]),
     marker  |-> IF last THEN NoMarker ELSE p + 1]

\* Number of folders and of files of a page.
PageShapes == (0..MaxPerPage) \X (0..MaxPerPage)

\* A finite chain of n pages the server holds: page p carries the marker of
\* page p+1, the last page carries none.
PageChain(n, shapes) == [p \in 1..n |-> DirectoryShow(p, shapes[p], p = n)]

\* The ways a page fetch can fail (the Err arms of get_directory).
FetchErrors == {"NotFound", "Api"}

\* get_directory(dir, marker): the server answers a request without marker
\* with its first page and a request with marker m with page m; fault names
\* the failure of this request, "ok" when it succeeds.
get_directory(chain, m, fault) ==
    IF fault # "ok"
    THEN [ok |-> FALSE, err |-> fault]
    ELSE [ok |-> TRUE, ds |-> chain[IF m = NoMarker THEN 1 ELSE m]]

\* DirectoryListing::new
DirectoryListingNew ==
    [folders |-> <<>>, files |-> <<>>, marker |-> NoMarker, query_count |-> 0]

\* The values next() returns.
NoneRet == [kind |-> "None"]
DirItem(d) == [kind |-> "Dir", name |-> d.name]
FileItem(f) == [kind |-> "File", name |-> f.filename, size |-> f.size]

\* Mutant: a failed fetch is taken for the end of the listing.
ErrItemSwallowed(e) == [kind |-> "None"]

\* Some(Err(err))
ErrItem(e) == [kind |-> "Err", err |-> e]

\* Mutant: files are handed out before folders.
NextPendingFilesFirst(st) ==
    IF st.files # <<>> THEN "file"
    ELSE IF st.folders # <<>> THEN "folder"
    ELSE "none"

\* The order of the matches in next(): folders.next(), then files.next().
NextPending(st) ==
    IF st.folders # <<>> THEN "folder"
    ELSE IF st.files # <<>> THEN "file"
    ELSE "none"

\* Mutant: off by one, a second first-page query is issued.
ShouldQueryOffByOne(qc, m) == qc <= 1 \/ m # NoMarker

\* `self.query_count == 0 || self.marker.is_some()`
ShouldQuery(qc, m) == qc = 0 \/ m # NoMarker

\* Mutant: the new page's files are appended to nothing: they are dropped.
ReplacePageDropFiles(st, ds) ==
    [st EXCEPT !.folders = ds.folders, !.files = <<>>, !.marker = ds.marker]

\* The Ok(ds) arm: folders, files and marker are replaced by the page's.
ReplacePage(st, ds) ==
    [st EXCEPT !.folders = ds.folders, !.files = ds.files, !.marker = ds.marker]

\* Mutant: an exhausted iterator starts over.
ExhaustedRestart(st) == [st EXCEPT !.query_count = 0]

\* The `else { None }` arm: the iterator is left as it is.
Exhausted(st) == st

\* DirectoryListing::next on iterator state st.  The k-th request of this
\* call fails with failKind when k = failAt (failAt = 0: none fails).  The
\* result holds the new iterator state, the returned value and the requests
\* issued, oldest first.
RECURSIVE IterNext(_, _, _, _, _)
IterNext(chain, st, failAt, failKind, reqs) ==
    CASE NextPending(st) = "folder" ->
            [st   |-> [st EXCEPT !.folders = Tail(@)],
             ret  |-> DirItem(Head(st.folders)),
             reqs |-> reqs]
      [] NextPending(st) = "file" ->
            [st   |-> [st EXCEPT !.files = Tail(@)],
             ret  |-> FileItem(Head(st.files)),
             reqs |-> reqs]
      [] OTHER ->
            IF ShouldQuery(st.query_count, st.marker)
            THEN LET fault == IF Len(reqs) + 1 = failAt THEN failKind ELSE "ok"
                     st1   == [st EXCEPT !.query_count = @ + 1]
                     reqs1 == Append(reqs, [marker |-> st.marker, fault |-> fault])
                     res   == get_directory(chain, st.marker, fault)
                 IN  IF res.ok
                     THEN IterNext(chain, ReplacePage(st1, res.ds), failAt, failKind, reqs1)
                     ELSE [st |-> st1, ret |-> ErrItem(res.err), reqs |-> reqs1]
            ELSE [st |-> Exhausted(st), ret |-> NoneRet, reqs |-> reqs]

\* The failed requests of a request log.
Failed(log) == {i \in 1..Len(log) : log[i].fault # "ok"}

\* The iterator's fields as one record.
ListingState ==
    [folders |-> folders, files |-> files, marker |-> marker,
     query_count |-> query_count]

listVars == <<pages, folders, files, marker, query_count, ret, out, fetchLog, callFetches>>

\* DataDir::list(): a fresh iterator over some chain of pages.
ListInit ==
    /\ \E n \in 1..MaxPages : \E shapes \in [1..n -> PageShapes] :
            pages = PageChain(n, shapes)
    /\ folders = DirectoryListingNew.folders
    /\ files = DirectoryListingNew.files
    /\ marker = DirectoryListingNew.marker
    /\ query_count = DirectoryListingNew.query_count
    /\ ret = [kind |-> "Start"]
    /\ out = <<>>
    /\ fetchLog = <<>>
    /\ callFetches = 0

\* One call of next(), with the server failing at most one of its requests.
Next_(failAt, failKind) ==
    LET r == IterNext(pages, ListingState, failAt, failKind, <<>>)
    IN  /\ Cardinality(Failed(fetchLog \o r.reqs)) <= MaxFailures
        /\ folders' = r.st.folders
        /\ files' = r.st.files
        /\ marker' = r.st.marker
        /\ query_count' = r.st.query_count
        /\ ret' = r.ret
        /\ out' = IF r.ret = NoneRet THEN out ELSE Append(out, r.ret)
        /\ fetchLog' = fetchLog \o r.reqs
        /\ callFetches' = Len(r.reqs)
        /\ UNCHANGED pages

\* The iterator is not in use (the state of the other specifications).
ListIdle ==
    /\ pages = <<>>
    /\ folders = <<>>
    /\ files = <<>>
    /\ marker = NoMarker
    /\ query_count = 0
    /\ ret = [kind |-> "Start"]
    /\ out = <<>>
    /\ fetchLog = <<>>
    /\ callFetches = 0

\* ==================================================================
\* EntryPoint::apply
\* ==================================================================

VARIABLES
    apInput,    \* the AlgoInput of the last apply()
    apHandler,  \* the handler apply() was called on
    apCalls,    \* the entry points that call invoked with their arguments, in order
    apResult    \* what that call returned

\* The texts the inputs are made of.
Strings == {"hello", "1", "true", ""}

\* The byte strings the inputs are made of (written in hex).
ByteStrings == {"", "00ff"}

\* serde_json::Value / rustc_serialize Json: a tag and the value's text.
JsonString(s) == [tag |-> "string", v |-> s]
JsonNull == [tag |-> "null", v |-> "null"]
JsonValues ==
    {JsonNull, [tag |-> "bool", v |-> "true"], [tag |-> "number", v |-> "1"],
     [tag |-> "array", v |-> "[5,41]"], [tag |-> "object", v |-> "{}"]}
    \cup {JsonString(s) : s \in Strings}

\* What the entry points receive: a &str, a &Json or a &[u8].
StrArg(s) == [tag |-> "&str", v |-> s]
BytesArg(b) == [tag |-> "&[u8]", v |-> b]

\* enum AlgoInput
Text(s) == [variant |-> "Text", val |-> StrArg(s)]
Json(j) == [variant |-> "Json", val |-> j]
Binary(b) == [variant |-> "Binary", val |-> BytesArg(b)]
AlgoInputs ==
    {Text(s) : s \in Strings} \cup {Json(j) : j \in JsonValues}
        \cup {Binary(b) : b \in ByteStrings}

\* Option<T>
Some(x) == [some |-> TRUE, val |-> x]
None == [some |-> FALSE, val |-> [tag |-> "none", v |-> ""]]

\* json::value_as_str: the text of a string-tagged value, None for any other.
value_as_str(j) == IF j.tag = "string" THEN Some(StrArg(j.v)) ELSE None

\* Mutant: any JSON value is viewed as its text.
as_stringAnyJson(input) ==
    CASE input.variant = "Text" -> Some(input.val)
      [] input.variant = "Json" -> Some(StrArg(input.val.v))
      [] OTHER -> None

\* AlgoInput::as_string
as_string(input) ==
    CASE input.variant = "Text" -> Some(input.val)
      [] input.variant = "Json" -> value_as_str(input.val)
      [] OTHER -> None

\* Mutant: the text is read as JSON instead of being wrapped.
as_jsonParsed(input) ==
    CASE input.variant = "Text" ->
            Some(CASE input.val.v = "1" -> [tag |-> "number", v |-> "1"]
                   [] input.val.v = "true" -> [tag |-> "bool", v |-> "true"]
                   [] OTHER -> JsonString(input.val.v))
      [] input.variant = "Json" -> Some(input.val)
      [] OTHER -> None

\* AlgoInput::as_json
as_json(input) ==
    CASE input.variant = "Text" -> Some(JsonString(input.val.v))
      [] input.variant = "Json" -> Some(input.val)
      [] OTHER -> None

\* Mutant: a text is viewed as its bytes too.
as_bytesOfText(input) ==
    CASE input.variant = "Binary" -> Some(input.val)
      [] input.variant = "Text" -> Some(BytesArg(input.val.v))
      [] OTHER -> None

\* AlgoInput::as_bytes
as_bytes(input) ==
    CASE input.variant = "Binary" -> Some(input.val)
      [] OTHER -> None

\* The three entry points of trait EntryPoint.
EntryPoints == {"apply_str", "apply_json", "apply_bytes"}

\* What one entry point of a handler does: "default" is the trait's body (not
\* overridden), the others are what an overriding body may return: Ok, the
\* library's UnsupportedInput, another error of the library, or an error of
\* another type.
Behaviours == {"default", "ok", "unsupported", "lib_err", "foreign_err"}

\* Every handler: a behaviour for each entry point.
Handlers == [EntryPoints -> Behaviours]

\* Result<AlgoOutput, Box<StdError>>; by names where the value was made and
\* arg what that entry point had received.
OkOutput(by, arg) == [tag |-> "Ok", kind |-> "", by |-> by, arg |-> arg]
ErrBox(kind, by) == [tag |-> "Err", kind |-> kind, by |-> by, arg |-> None.val]

\* Error::UnsupportedInput made by `by`.
UnsupportedInput(by) == ErrBox("UnsupportedInput", by)

\* One call of entry point ep of handler h with argument arg.
CallEntry(h, ep, arg) ==
    CASE h[ep] = "default" -> UnsupportedInput(ep)
      [] h[ep] = "unsupported" -> UnsupportedInput(ep)
      [] h[ep] = "ok" -> OkOutput(ep, arg)
      [] h[ep] = "lib_err" -> ErrBox("MismatchedContentType", ep)
      [] h[ep] = "foreign_err" -> ErrBox("Foreign", ep)

\* Mutant: every error of the library triggers the fallback.
IsUnsupportedAnyLibError(res) == res.tag = "Err" /\ res.kind # "Foreign"

\* `err.downcast::<Error>()` gives Ok(Error::UnsupportedInput).
IsUnsupported(res) == res.tag = "Err" /\ res.kind = "UnsupportedInput"

\* A call record of the log.
CallRec(ep, arg) == [ep |-> ep, arg |-> arg]

\* Mutant: when the fallback is unsupported too, the first entry point is
\* tried once more.
ApplyArmChained(h, first, arg, second, coerced) ==
    LET r1 == CallEntry(h, first, arg)
        r2 == CallEntry(h, second, coerced.val)
    IN  IF IsUnsupported(r1)
        THEN IF coerced.some
             THEN IF IsUnsupported(r2)
                  THEN [calls |-> <<CallRec(first, arg), CallRec(second, coerced.val),
                                    CallRec(first, arg)>>,
                        res   |-> CallEntry(h, first, arg)]
                  ELSE [calls |-> <<CallRec(first, arg), CallRec(second, coerced.val)>>,
                        res   |-> r2]
             ELSE [calls |-> <<CallRec(first, arg)>>, res |-> UnsupportedInput("apply")]
        ELSE [calls |-> <<CallRec(first, arg)>>, res |-> r1]

\* The arm of apply() for first entry point `first` with argument arg, whose
\* fallback is entry point `second` on the Option coerced.
ApplyArm(h, first, arg, second, coerced) ==
    LET r1 == CallEntry(h, first, arg)
    IN  IF IsUnsupported(r1)
        THEN IF coerced.some
             THEN [calls |-> <<CallRec(first, arg), CallRec(second, coerced.val)>>,
                   res   |-> CallEntry(h, second, coerced.val)]
             ELSE [calls |-> <<CallRec(first, arg)>>, res |-> UnsupportedInput("apply")]
        ELSE [calls |-> <<CallRec(first, arg)>>, res |-> r1]

\* Mutant: binary input falls back to apply_str like the other arms.
ApplyBinaryFallback(h, input) ==
    LET r1 == CallEntry(h, "apply_bytes", input.val)
    IN  IF IsUnsupported(r1)
        THEN [calls |-> <<CallRec("apply_bytes", input.val), CallRec("apply_str", StrArg(input.val.v))>>,
              res   |-> CallEntry(h, "apply_str", StrArg(input.val.v))]
        ELSE [calls |-> <<CallRec("apply_bytes", input.val)>>, res |-> r1]

\* The Binary arm of apply().
ApplyBinary(h, input) ==
    [calls |-> <<CallRec("apply_bytes", input.val)>>,
     res   |-> CallEntry(h, "apply_bytes", input.val)]

\* EntryPoint::apply (the default body): the calls it makes and its result.
Apply(h, input) ==
    CASE input.variant = "Text" ->
            ApplyArm(h, "apply_str", input.val, "apply_json", as_json(input))
      [] input.variant = "Json" ->
            ApplyArm(h, "apply_json", input.val, "apply_str", as_string(input))
      [] input.variant = "Binary" -> ApplyBinary(h, input)

applyVars == <<apInput, apHandler, apCalls, apResult>>

\* The result before apply() has run.
NotRun == ErrBox("none", "none")

\* No apply() is under way (the state of the other specifications).
ApplyIdle ==
    /\ apInput = Binary("")
    /\ apHandler = [ep \in EntryPoints |-> "default"]
    /\ apCalls = <<>>
    /\ apResult = NotRun

\* Some handler is about to be applied to some input.
ApplyInit ==
    /\ apInput \in AlgoInputs
    /\ apHandler \in Handlers
    /\ apCalls = <<>>
    /\ apResult = NotRun

\* apHandler.apply(apInput) for an input of the given variant.
ApplyOn(variant) ==
    LET r == Apply(apHandler, apInput)
    IN  /\ apResult = NotRun
        /\ apInput.variant = variant
        /\ apCalls' = r.calls
        /\ apResult' = r.res
        /\ UNCHANGED <<apInput, apHandler>>

\* ==================================================================
\* AlgoResponse::from_str
\* ==================================================================

VARIABLES
    frBody,    \* the response body handed to from_str
    frResult   \* what from_str returned for it

\* A field that the JSON object does not have.
Absent == [tag |-> "absent", v |-> ""]

\* A `metadata` value that decodes as AlgoMetadata, with its content_type.
MetadataObject(ct) == [tag |-> "metadata", v |-> ct]

\* The content types a server may declare: the four known ones and another.
ContentTypes == {"void", "json", "text", "binary", "html"}

\* The values of the fields of a response body.
ErrorFields == {Absent, JsonString("boom"), [tag |-> "number", v |-> "1"]}
StacktraceFields == {Absent, JsonNull, JsonString("at line 1"), [tag |-> "number", v |-> "1"]}
MetadataFields ==
    {Absent, [tag |-> "number", v |-> "1"]} \cup {MetadataObject(ct) : ct \in ContentTypes}
ResultFields ==
    {Absent, JsonNull, JsonString("aGk="), JsonString("hello"),
     [tag |-> "number", v |-> "1"], [tag |-> "array", v |-> "[5,41]"]}
NestedMetadataFields == {Absent, MetadataObject("json")}
NestedResultFields == {Absent, [tag |-> "number", v |-> "1"]}

\* A body that is a JSON object: its top-level fields `error`, `stacktrace`,
\* `metadata` and `result`, and the `metadata` and `result` fields of an
\* object nested under another key.
ObjectBodies ==
    [kind : {"object"}, error : ErrorFields, stacktrace : StacktraceFields,
     metadata : MetadataFields, result : ResultFields,
     nested_metadata : NestedMetadataFields, nested_result : NestedResultFields]

\* A body that is JSON but no object (kind "value") or no JSON at all
\* (kind "garbage").
OtherBody(kind) ==
    [kind |-> kind, error |-> Absent, stacktrace |-> Absent, metadata |-> Absent,
     result |-> Absent, nested_metadata |-> Absent, nested_result |-> Absent]

Bodies == ObjectBodies \cup {OtherBody("value"), OtherBody("garbage")}

\* struct ApiErrorResponse { error: String, stacktrace: Option<String> }:
\* the bodies that decode into it.
ApiErrorResponse(body) ==
    /\ body.kind = "object"
    /\ body.error.tag = "string"
    /\ body.stacktrace.tag \in {"absent", "null", "string"}

\* json::decode_str::<ApiErrorResponse>
decode_str_ApiErrorResponse(body) ==
    IF ApiErrorResponse(body)
    THEN Some([tag |-> "ApiErrorResponse", v |-> body.error.v])
    ELSE None

\* json::decode_str::<AlgoMetadata> of a `metadata` value.
decode_str_AlgoMetadata(meta) ==
    IF meta.tag = "metadata" THEN Some(meta) ELSE None

\* json::value_from_str succeeds.
value_from_str(body) == body.kind # "garbage"

\* Json::search(key): the field of the object itself, else that of an object
\* nested in it.
search(body, key) ==
    LET top    == IF key = "metadata" THEN body.metadata ELSE body.result
        nested == IF key = "metadata" THEN body.nested_metadata ELSE body.nested_result
    IN  IF body.kind # "object" THEN None
        ELSE IF top # Absent THEN Some(top)
        ELSE IF nested # Absent THEN Some(nested)
        ELSE None

\* base64::decode: the bytes (in hex) of a well-formed base64 text.
base64_decode(text) ==
    CASE text = "aGk=" -> Some(BytesArg("6869"))
      [] text = "" -> Some(BytesArg(""))
      [] OTHER -> None

\* Result<AlgoResponse, Error>
OkResponse(meta, variant, val) ==
    [tag |-> "Ok", kind |-> "", detail |-> "", content_type |-> meta.v,
     variant |-> variant, val |-> val]
ErrResponse(kind, detail) ==
    [tag |-> "Err", kind |-> kind, detail |-> detail, content_type |-> "",
     variant |-> "", val |-> None.val]

\* Mutant: a text or binary `result` that is no string is taken by its text.
AlgoOutputOfCoerced(meta, result) ==
    CASE meta.v = "void" -> OkResponse(meta, "Json", JsonNull)
      [] meta.v = "json" /\ result.some -> OkResponse(meta, "Json", result.val)
      [] meta.v = "text" /\ result.some ->
            OkResponse(meta, "Text", StrArg(result.val.v))
      [] meta.v = "binary" /\ result.some ->
            IF base64_decode(result.val.v).some
            THEN OkResponse(meta, "Binary", base64_decode(result.val.v).val)
            ELSE ErrResponse("Base64", result.val.v)
      [] OTHER ->
            IF ~result.some
            THEN ErrResponse("MissingField", "result")
            ELSE ErrResponse("InvalidContentType", meta.v)

\* The match on (content_type, data.search("result")) of from_str.
AlgoOutputOf(meta, result) ==
    CASE meta.v = "void" -> OkResponse(meta, "Json", JsonNull)
      [] meta.v = "json" /\ result.some -> OkResponse(meta, "Json", result.val)
      [] meta.v = "text" /\ result.some ->
            IF value_as_str(result.val).some
            THEN OkResponse(meta, "Text", value_as_str(result.val).val)
            ELSE ErrResponse("MismatchedContentType", "text")
      [] meta.v = "binary" /\ result.some ->
            IF value_as_str(result.val).some
            THEN IF base64_decode(result.val.v).some
                 THEN OkResponse(meta, "Binary", base64_decode(result.val.v).val)
                 ELSE ErrResponse("Base64", result.val.v)
            ELSE ErrResponse("MismatchedContentType", "binary")
      [] OTHER ->
            IF ~result.some
            THEN ErrResponse("MissingField", "result")
            ELSE ErrResponse("InvalidContentType", meta.v)

\* Mutant: the error envelope is consulted only when `metadata` is missing.
from_strSuccessFirst(body) ==
    IF ~value_from_str(body) THEN ErrResponse("JsonParse", "")
    ELSE IF ~search(body, "metadata").some
    THEN IF decode_str_ApiErrorResponse(body).some
         THEN ErrResponse("Api", decode_str_ApiErrorResponse(body).val.v)
         ELSE ErrResponse("MissingField", "metadata")
    ELSE IF ~decode_str_AlgoMetadata(search(body, "metadata").val).some
    THEN ErrResponse("DecodeMetadata", "")
    ELSE AlgoOutputOf(search(body, "metadata").val, search(body, "result"))

\* AlgoResponse::from_str
from_str(body) ==
    IF decode_str_ApiErrorResponse(body).some
    THEN ErrResponse("Api", decode_str_ApiErrorResponse(body).val.v)
    ELSE IF ~value_from_str(body) THEN ErrResponse("JsonParse", "")
    ELSE IF ~search(body, "metadata").some THEN ErrResponse("MissingField", "metadata")
    ELSE IF ~decode_str_AlgoMetadata(search(body, "metadata").val).some
    THEN ErrResponse("DecodeMetadata", "")
    ELSE AlgoOutputOf(search(body, "metadata").val, search(body, "result"))

fromStrVars == <<frBody, frResult>>

\* The result before from_str has run.
NotDecoded == ErrResponse("none", "")

\* No body is being decoded (the state of the other specifications).
FromStrIdle ==
    /\ frBody = OtherBody("garbage")
    /\ frResult = NotDecoded

\* Some body has arrived.
FromStrInit ==
    /\ frBody \in Bodies
    /\ frResult = NotDecoded

\* frBody.parse::<AlgoResponse>()
FromStrCall ==
    /\ frResult = NotDecoded
    /\ frResult' = from_str(frBody)
    /\ UNCHANGED frBody

\* ==================================================================
\* Payload views, From<AlgoOutput> for AlgoInput and Algorithm::pipe
\* (src/algo/algorithm.rs)
\* ==================================================================

VARIABLES
    pvClient,   \* the client the algorithm was made with
    pvValue,    \* the payload: an AlgoInput, or the result of an AlgoResponse
    pvOp,       \* the operation that was applied to it
    pvOut       \* what that operation gave: views, requests sent, response

\* struct AlgoResponse; the metadata names the content type of the variant.
AlgoResponse(result) ==
    [metadata |-> MetadataObject(CASE result.variant = "Text" -> "text"
                                   [] result.variant = "Json" -> "json"
                                   [] OTHER -> "binary"),
     result |-> result]

\* AlgoResponse::into_string
into_string(response) ==
    CASE response.result.variant = "Text" -> Some(response.result.val)
      [] response.result.variant = "Json" /\ response.result.val.tag = "string" ->
            Some(StrArg(response.result.val.v))
      [] OTHER -> None

\* AlgoResponse::into_json
into_json(response) ==
    CASE response.result.variant = "Json" -> Some(response.result.val)
      [] response.result.variant = "Text" -> Some(JsonString(response.result.val.v))
      [] OTHER -> None

\* AlgoResponse::into_bytes
into_bytes(response) ==
    CASE response.result.variant = "Binary" -> Some(response.result.val)
      [] OTHER -> None

\* Mutant: a text result is forwarded as the JSON string wrapping it.
AlgoInputFromTextAsJson(output) ==
    CASE output.variant = "Text" -> Json(JsonString(output.val.v))
      [] output.variant = "Json" -> Json(output.val)
      [] output.variant = "Binary" -> Binary(output.val.v)

\* impl From<AlgoOutput> for AlgoInput
AlgoInputFrom(output) ==
    CASE output.variant = "Text" -> Text(output.val.v)
      [] output.variant = "Json" -> Json(output.val)
      [] output.variant = "Binary" -> Binary(output.val.v)

\* json::encode of a JSON value: its serialisation (a string is quoted).
json_encode(j) ==
    CASE j = JsonString("hello") -> "\"hello\""
      [] j = JsonString("1") -> "\"1\""
      [] j = JsonString("true") -> "\"true\""
      [] j = JsonString("") -> "\"\""
      [] j = JsonString("aGk=") -> "\"aGk=\""
      [] OTHER -> j.v

\* The three Mime values pipe builds.
MimeTextPlain == "text/plain"
MimeApplicationJson == "application/json"
MimeOctetStream == "application/octet-stream"

\* What the server does with a request: the send fails, reading the response
\* fails, or a body comes back.
Replies ==
    {[kind |-> k, body |-> OtherBody("garbage")] : k \in {"send_err", "read_err"}}
        \cup {[kind |-> "body", body |-> b] : b \in Bodies}

\* The clients: one whose base_url is Ok, one whose base_url is Err.
Clients == {"valid", "bad_base_url"}

\* Algorithm::to_url succeeds.
to_url(client) == client = "valid"

\* Algorithm::pipe_as: the URL is built, then one POST with the given body and
\* Content-Type header is sent.
pipe_as(client, input_data, content_type, reply) ==
    IF ~to_url(client)
    THEN [requests |-> <<>>, res |-> "url_err"]
    ELSE [requests |-> <<[content_type |-> content_type, body |-> input_data]>>,
          res |-> IF reply.kind = "send_err" THEN "send_err" ELSE "response"]

\* Mutant: every text-like input is sent as JSON.
pipeTextAsJson(client, input, reply) ==
    LET res == CASE input.variant = "Text" ->
                        pipe_as(client, StrArg(json_encode(JsonString(input.val.v))),
                                MimeApplicationJson, reply)
                 [] input.variant = "Json" ->
                        pipe_as(client, StrArg(json_encode(input.val)),
                                MimeApplicationJson, reply)
                 [] input.variant = "Binary" ->
                        pipe_as(client, input.val, MimeOctetStream, reply)
    IN  [requests |-> res.requests,
         res |-> CASE res.res = "url_err" -> ErrResponse("Url", "")
                   [] res.res = "send_err" -> ErrResponse("Http", "")
                   [] OTHER -> IF reply.kind = "read_err" THEN ErrResponse("Io", "")
                               ELSE from_str(reply.body)]

\* Algorithm::pipe: the request sent for the input, then the response read
\* and parsed.
pipe(client, input, reply) ==
    LET res == CASE input.variant = "Text" ->
                        pipe_as(client, input.val, MimeTextPlain, reply)
                 [] input.variant = "Json" ->
                        pipe_as(client, StrArg(json_encode(input.val)),
                                MimeApplicationJson, reply)
                 [] input.variant = "Binary" ->
                        pipe_as(client, input.val, MimeOctetStream, reply)
    IN  [requests |-> res.requests,
         res |-> CASE res.res = "url_err" -> ErrResponse("Url", "")
                   [] res.res = "send_err" -> ErrResponse("Http", "")
                   [] OTHER -> IF reply.kind = "read_err" THEN ErrResponse("Io", "")
                               ELSE from_str(reply.body)]

payloadVars == <<pvClient, pvValue, pvOp, pvOut>>

\* What an operation leaves in pvOut: the three views, the text read back from
\* the JSON view, the requests sent and the response.
PayloadOut(text, json, bytes, back, requests, res) ==
    [text |-> text, json |-> json, bytes |-> bytes, back |-> back,
     requests |-> requests, res |-> res]

NoPayloadOut == PayloadOut(None, None, None, None, <<>>, NotDecoded)

\* No payload is in use (the state of the other specifications).
PayloadIdle ==
    /\ pvClient = "valid"
    /\ pvValue = Json(JsonNull)
    /\ pvOp = "none"
    /\ pvOut = NoPayloadOut

\* Some client and some payload.
PayloadInit ==
    /\ pvClient \in Clients
    /\ pvValue \in AlgoInputs
    /\ pvOp = "none"
    /\ pvOut = NoPayloadOut

\* as_string, as_json and as_bytes of the input, and as_string of the input
\* made of its JSON view.
InputViews ==
    /\ pvOp = "none"
    /\ pvOp' = "as"
    /\ pvOut' = PayloadOut(as_string(pvValue), as_json(pvValue), as_bytes(pvValue),
                           IF as_json(pvValue).some
                           THEN as_string(Json(as_json(pvValue).val)) ELSE None,
                           <<>>, NotDecoded)
    /\ UNCHANGED <<pvClient, pvValue>>

\* into_string, into_json and into_bytes of the response with this result.
ResponseViews ==
    /\ pvOp = "none"
    /\ pvOp' = "into"
    /\ pvOut' = PayloadOut(into_string(AlgoResponse(pvValue)),
                           into_json(AlgoResponse(pvValue)),
                           into_bytes(AlgoResponse(pvValue)), None, <<>>, NotDecoded)
    /\ UNCHANGED <<pvClient, pvValue>>

\* algo.pipe(input)
PipeInput ==
    /\ pvOp = "none"
    /\ pvOp' = "pipe"
    /\ \E reply \in Replies :
            pvOut' = PayloadOut(None, None, None, None,
                                pipe(pvClient, pvValue, reply).requests, pipe(pvClient, pvValue, reply).res)
    /\ UNCHANGED <<pvClient, pvValue>>

\* algo.pipe(output): the result of a response piped into the next call.
PipeOutput ==
    /\ pvOp = "none"
    /\ pvOp' = "pipe_output"
    /\ \E reply \in Replies :
            pvOut' = PayloadOut(None, None, None, None,
                                pipe(pvClient, AlgoInputFrom(pvValue), reply).requests,
                                pipe(pvClient, AlgoInputFrom(pvValue), reply).res)
    /\ UNCHANGED <<pvClient, pvValue>>

\* ==================================================================
\* DecodedEntryPoint (src/algo/algorithm.rs)
\* ==================================================================

VARIABLES
    dcInput,    \* the AlgoInput of the last apply()
    dcType,     \* the handler's associated type Input
    dcBody,     \* what the handler's apply_decoded returns
    dcCalls,    \* the decoded values apply_decoded was invoked with
    dcResult    \* what apply() returned

\* The Input types of the handlers.
InputTypes == {"String", "i32", "Vec<i32>", "Option<bool>"}

\* What apply_decoded may return.
DecodedBodies == {"ok", "unsupported", "foreign_err"}

\* json::decode_value::<D>: the value as a D, or None for a DecoderError.
decode_value(D, j) ==
    IF \/ D = "String" /\ j.tag = "string"
       \/ D = "i32" /\ j.tag = "number"
       \/ D = "Vec<i32>" /\ j.tag = "array"
       \/ D = "Option<bool>" /\ j.tag \in {"null", "bool"}
    THEN Some([tag |-> D, v |-> j.v])
    ELSE None

\* self.apply_decoded(decoded) of a handler whose body behaves as `body`.
apply_decoded(body, decoded) ==
    CASE body = "ok" -> OkOutput("apply_decoded", decoded)
      [] body = "unsupported" -> UnsupportedInput("apply_decoded")
      [] body = "foreign_err" -> ErrBox("Foreign", "apply_decoded")

\* Mutant: a value that does not decode reaches apply_decoded undecoded.
DecodedApplyLenient(D, body, input) ==
    IF as_json(input).some
    THEN LET decoded == decode_value(D, as_json(input).val)
         IN  IF decoded.some
             THEN [calls |-> <<decoded.val>>, res |-> apply_decoded(body, decoded.val)]
             ELSE [calls |-> <<as_json(input).val>>,
                   res |-> apply_decoded(body, as_json(input).val)]
    ELSE [calls |-> <<>>, res |-> UnsupportedInput("apply")]

\* impl<T: DecodedEntryPoint> EntryPoint for T: apply
DecodedApply(D, body, input) ==
    IF as_json(input).some
    THEN LET decoded == decode_value(D, as_json(input).val)
         IN  IF decoded.some
             THEN [calls |-> <<decoded.val>>, res |-> apply_decoded(body, decoded.val)]
             ELSE [calls |-> <<>>, res |-> ErrBox("Decode", "apply")]
    ELSE [calls |-> <<>>, res |-> UnsupportedInput("apply")]

decodedVars == <<dcInput, dcType, dcBody, dcCalls, dcResult>>

\* No decoding handler is in use (the state of the other specifications).
DecodedIdle ==
    /\ dcInput = Json(JsonNull)
    /\ dcType = "String"
    /\ dcBody = "ok"
    /\ dcCalls = <<>>
    /\ dcResult = NotRun

\* A decoding handler and an input.
DecodedInit ==
    /\ dcInput \in AlgoInputs
    /\ dcType \in InputTypes
    /\ dcBody \in DecodedBodies
    /\ dcCalls = <<>>
    /\ dcResult = NotRun

\* handler.apply(input) on an input of the given variant.
DecodedApplyOn(variant) ==
    /\ dcResult = NotRun
    /\ dcCalls = <<>>
    /\ dcInput.variant = variant
    /\ dcCalls' = DecodedApply(dcType, dcBody, dcInput).calls
    /\ dcResult' = DecodedApply(dcType, dcBody, dcInput).res
    /\ UNCHANGED <<dcInput, dcType, dcBody>>

\* ==================================================================
\* get_directory and DataFile::get: the mapping of a response
\* (data/dir.rs, data/file.rs)
\* ==================================================================

VARIABLES
    ftResponse, \* what the server did with the GET request
    ftOp,       \* the operation that issued it
    ftResult    \* what that operation returned

\* The status codes a response may carry.
StatusCodes == {200, 204, 302, 404, 500}

\* StatusCode::is_success: the 2xx codes.
is_success(status) == status \in 200..299

\* The X-Data-Type header of a response: absent, or the kind it names.
DataTypes == {"absent", "directory", "file", "blob"}

\* A response body by what it decodes as: a listing page (DirectoryShow, all
\* of whose fields are optional) and an error envelope.
FetchBodies == [listing : BOOLEAN, envelope : BOOLEAN]

\* What the server did: send fails when no response arrives, read fails when
\* the body of the response cannot be read.
Responses ==
    [send : {"ok", "err"}, status : StatusCodes, data_type : DataTypes,
     read : {"ok", "err"}, body : FetchBodies]

\* Result<T>: Ok of a listing page or of a FileData, or Err of an ErrorKind.
FetchOk(what) == [tag |-> "Ok", kind |-> what, detail |-> ""]
FetchErr(kind, detail) == [tag |-> "Err", kind |-> kind, detail |-> detail]

\* ApiError::from_json_or_status: the error parsed from the body when it is an
\* error envelope, an error made of the status otherwise.
from_json_or_status(body, status) ==
    IF body.envelope THEN FetchErr("Api", "body") ELSE FetchErr("Api", "status")

\* Mutant: a response marked with another kind is read as a listing.
KindMismatchIgnored(response) == FALSE

\* get_directory, the check of the X-Data-Type header: a success response
\* that names a kind other than "directory".
KindMismatch(response) ==
    /\ is_success(response.status)
    /\ response.data_type # "absent"
    /\ response.data_type # "directory"

\* Mutant: the NotFound arm is missing.
StatusMatchNoNotFound(response) ==
    CASE is_success(response.status) ->
            IF response.body.listing
            THEN FetchOk("DirectoryShow")
            ELSE FetchErr("DecodeJson", "directory listing")
      [] OTHER -> from_json_or_status(response.body, response.status)

\* get_directory, the match on res.status().
StatusMatch(response) ==
    CASE is_success(response.status) ->
            IF response.body.listing
            THEN FetchOk("DirectoryShow")
            ELSE FetchErr("DecodeJson", "directory listing")
      [] response.status = 404 -> FetchErr("NotFound", "dir.to_url()")
      [] OTHER -> from_json_or_status(response.body, response.status)

\* get_directory: the request is sent, the kind header of a success response
\* is checked, the body is read, the status is matched.
get_directory_response(response) ==
    IF response.send = "err" THEN FetchErr("Http", "listing directory")
    ELSE IF KindMismatch(response)
    THEN FetchErr("UnexpectedDataType:directory", response.data_type)
    ELSE IF response.read = "err" THEN FetchErr("Io", "listing directory")
    ELSE StatusMatch(response)

\* parse_headers: the DataType the X-Data-Type header names.
parse_headers(response) ==
    CASE response.data_type = "file" -> Some([tag |-> "DataType", v |-> "File"])
      [] response.data_type = "directory" -> Some([tag |-> "DataType", v |-> "Dir"])
      [] OTHER -> None

\* Mutant: a directory is handed out as the file's data.
DataFileGetAnyKind(response) ==
    IF response.send = "err" THEN FetchErr("Http", "downloading file")
    ELSE CASE response.status = 200 ->
                IF ~parse_headers(response).some
                THEN FetchErr("Headers", response.data_type)
                ELSE FetchOk("FileData")
           [] response.status = 404 -> FetchErr("NotFound", "self.to_url()")
           [] OTHER -> FetchErr("Api", "status")

\* DataFile::get
DataFileGet(response) ==
    IF response.send = "err" THEN FetchErr("Http", "downloading file")
    ELSE CASE response.status = 200 ->
                IF ~parse_headers(response).some
                THEN FetchErr("Headers", response.data_type)
                ELSE IF parse_headers(response).val.v = "Dir"
                THEN FetchErr("UnexpectedDataType:file", "directory")
                ELSE FetchOk("FileData")
           [] response.status = 404 -> FetchErr("NotFound", "self.to_url()")
           [] OTHER -> FetchErr("Api", "status")

fetchVars == <<ftResponse, ftOp, ftResult>>

\* The result before any request.
NotFetched == FetchErr("none", "")

\* No request is in flight (the state of the other specifications).
FetchIdle ==
    /\ ftResponse = [send |-> "err", status |-> 500, data_type |-> "absent",
                     read |-> "err", body |-> [listing |-> FALSE, envelope |-> FALSE]]
    /\ ftOp = "none"
    /\ ftResult = NotFetched

\* What the server is going to do with the request.
FetchInit ==
    /\ ftResponse \in Responses
    /\ ftOp = "none"
    /\ ftResult = NotFetched

\* get_directory(dir, marker)
DirFetch ==
    /\ ftOp = "none"
    /\ ftOp' = "get_directory"
    /\ ftResult' = get_directory_response(ftResponse)
    /\ UNCHANGED ftResponse

\* file.get()
FileGet ==
    /\ ftOp = "none"
    /\ ftOp' = "get"
    /\ ftResult' = DataFileGet(ftResponse)
    /\ UNCHANGED ftResponse

\* ==================================================================
\* DataAcl, DataDir::child and DataDir::create (data/dir.rs)
\* ==================================================================

VARIABLES
    ddPath,     \* DataDir.path of the directory handle
    ddAcl,      \* the ACL argument: a ReadAcl, or DataAcl::default()
    ddOp,       \* the operation called on the handle
    ddOut       \* what it gave: the new handle's path, requests sent, result

\* Paths and URIs are sequences of tokens: names, "/" and "://".
MaxDepth == 2

Schemes == {"data", "dropbox"}
PathNames == {"a", "b"}

\* The names joined by "/".
RECURSIVE JoinPath(_)
JoinPath(names) ==
    IF names = <<>> THEN <<>>
    ELSE IF Len(names) = 1 THEN names
    ELSE <<Head(names), "/">> \o JoinPath(Tail(names))

\* The URIs a handle is made of: scheme://a/b, with or without a trailing
\* "/", and the same without scheme, /a/b.
DataUris ==
    LET NameSeqs == UNION {[1..n -> PathNames] : n \in 0..MaxDepth}
        Trail(names) == IF names = <<>> THEN {<<>>} ELSE {<<>>, <<"/">>}
    IN  UNION {{<<s, "://">> \o JoinPath(names) \o t : s \in Schemes, t \in Trail(names)} :
                    names \in NameSeqs}
        \cup UNION {{<<"/">> \o JoinPath(names) \o t : t \in Trail(names)} :
                        names \in NameSeqs \ {<<>>}}

\* The positions of token t in seq.
Positions(seq, t) == {i \in 1..Len(seq) : seq[i] = t}
Max(S) == CHOOSE x \in S : \A y \in S : y <= x
Min(S) == CHOOSE x \in S : \A y \in S : x <= y

\* parse_data_uri: "scheme://rest" becomes "scheme/rest" (and "scheme://"
\* becomes "scheme"); a URI without scheme belongs to "data".
parse_data_uri(uri) ==
    IF Positions(uri, "://") # {}
    THEN IF uri[Len(uri)] = "://"
         THEN SubSeq(uri, 1, Len(uri) - 1)
         ELSE [i \in 1..Len(uri) |-> IF uri[i] = "://" THEN "/" ELSE uri[i]]
    ELSE IF uri # <<>> /\ Head(uri) = "/"
    THEN <<"data", "/">> \o Tail(uri)
    ELSE <<"data", "/">> \o uri

\* HasDataPath::new for DataDir
DataDirNew(uri) == parse_data_uri(uri)

\* HasDataPath::to_data_uri: the first "/" of the path is the "://" of the URI.
to_data_uri(path) ==
    IF Positions(path, "/") = {}
    THEN path \o <<"://">>
    ELSE [i \in 1..Len(path) |->
            IF i = Min(Positions(path, "/")) THEN "://" ELSE path[i]]

\* str::ends_with('/')
ends_with_slash(uri) == uri # <<>> /\ uri[Len(uri)] \in {"/", "://"}

\* HasDataPath::parent: the path up to its last "/", None without one.
parent(path) ==
    IF Positions(path, "/") = {}
    THEN [some |-> FALSE, val |-> <<>>]
    ELSE Some(SubSeq(path, 1, Max(Positions(path, "/")) - 1))

\* HasDataPath::basename: the path after its last "/", None without one.
basename(path) ==
    IF Positions(path, "/") = {}
    THEN [some |-> FALSE, val |-> <<>>]
    ELSE Some(SubSeq(path, Max(Positions(path, "/")) + 1, Len(path)))

\* Mutant: the separator is always inserted.
childAlwaysSeparator(path, filename) ==
    DataDirNew(to_data_uri(path) \o <<"/">> \o filename)

\* DataDir::child: the path of the new handle.
child(path, filename) ==
    DataDirNew(IF ends_with_slash(to_data_uri(path))
               THEN to_data_uri(path) \o filename
               ELSE to_data_uri(path) \o <<"/">> \o filename)

\* enum ReadAcl, and "default" for DataAcl::default().
AclArgs == {"Private", "MyAlgorithms", "Public", "__Nonexhaustive", "default"}

\* Mutant: Public and MyAlgorithms are swapped.
DataAclFromSwapped(acl) ==
    CASE acl \in {"Private", "__Nonexhaustive"} -> [read |-> <<>>]
      [] acl = "MyAlgorithms" -> [read |-> <<"user://*">>]
      [] acl = "Public" -> [read |-> <<"algo://.my/*">>]

\* impl From<ReadAcl> for DataAcl
DataAclFrom(acl) ==
    CASE acl \in {"Private", "__Nonexhaustive"} -> [read |-> <<>>]
      [] acl = "MyAlgorithms" -> [read |-> <<"algo://.my/*">>]
      [] acl = "Public" -> [read |-> <<"user://*">>]

\* impl Default for DataAcl
DataAclDefault == DataAclFrom("MyAlgorithms")

\* acl.into() of the argument of create.
AclInto(acl) == IF acl = "default" THEN DataAclDefault ELSE DataAclFrom(acl)

\* What the server does with the POST of create.
CreateReplies ==
    {r \in Responses : r.data_type = "absent" /\ ~r.body.listing}

\* Mutant: a root directory is posted to itself.
DataDirCreateRootless(path, acl, reply) ==
    LET request == [method |-> "POST",
                    url |-> IF parent(path).some THEN parent(path).val ELSE path,
                    content_type |-> "application/json",
                    body |-> [name |-> basename(path).val, acl |-> AclInto(acl)]]
    IN  [requests |-> <<request>>,
         res |-> IF reply.send = "err" THEN FetchErr("Http", "creating directory")
                 ELSE IF is_success(reply.status) THEN FetchOk("()")
                 ELSE IF reply.status = 404 THEN FetchErr("NotFound", "self.to_url()")
                 ELSE IF reply.read = "err" THEN FetchErr("Io", "creating directory")
                 ELSE from_json_or_status(reply.body, reply.status)]

\* DataDir::create
DataDirCreate(path, acl, reply) ==
    IF ~parent(path).some \/ ~basename(path).some
    THEN [requests |-> <<>>, res |-> FetchErr("InvalidDataUri", "self.to_data_uri()")]
    ELSE LET request == [method |-> "POST",
                         url |-> parent(path).val,
                         content_type |-> "application/json",
                         body |-> [name |-> basename(path).val, acl |-> AclInto(acl)]]
         IN  [requests |-> <<request>>,
              res |-> IF reply.send = "err" THEN FetchErr("Http", "creating directory")
                      ELSE IF is_success(reply.status) THEN FetchOk("()")
                      ELSE IF reply.status = 404 THEN FetchErr("NotFound", "self.to_url()")
                      ELSE IF reply.read = "err" THEN FetchErr("Io", "creating directory")
                      ELSE from_json_or_status(reply.body, reply.status)]

dirVars == <<ddPath, ddAcl, ddOp, ddOut>>

\* What an operation leaves in ddOut: the argument it was given, the path of
\* the handle it made, the DataAcl it made, the requests it sent, its result.
DirOut(arg, path, acl, requests, res) ==
    [arg |-> arg, path |-> path, acl |-> acl, requests |-> requests, res |-> res]

NoDirOut == DirOut(<<>>, <<>>, [read |-> <<>>], <<>>, NotFetched)

\* No directory handle is in use (the state of the other specifications).
DirIdle ==
    /\ ddPath = <<>>
    /\ ddAcl = "default"
    /\ ddOp = "none"
    /\ ddOut = NoDirOut

\* client.dir(uri), and an ACL.
DirInit ==
    /\ \E uri \in DataUris : ddPath = DataDirNew(uri)
    /\ ddAcl \in AclArgs
    /\ ddOp = "none"
    /\ ddOut = NoDirOut

\* The file and directory names child() is called with.
ChildNames == {<<"c">>, <<"c", "/", "d">>}

\* dir.child(filename)
DirChild ==
    /\ ddOp = "none"
    /\ ddOp' = "child"
    /\ \E filename \in ChildNames :
            ddOut' = DirOut(filename, child(ddPath, filename), NoDirOut.acl, <<>>, NotFetched)
    /\ UNCHANGED <<ddPath, ddAcl>>

\* acl.into(): the DataAcl of the ACL argument.
DirAcl ==
    /\ ddOp = "none"
    /\ ddOp' = "acl"
    /\ ddOut' = DirOut(<<>>, <<>>, AclInto(ddAcl), <<>>, NotFetched)
    /\ UNCHANGED <<ddPath, ddAcl>>

\* dir.create(acl)
DirCreate ==
    /\ ddOp = "none"
    /\ ddOp' = "create"
    /\ \E reply \in CreateReplies :
            ddOut' = DirOut(reply, <<>>, NoDirOut.acl,
                            DataDirCreate(ddPath, ddAcl, reply).requests,
                            DataDirCreate(ddPath, ddAcl, reply).res)
    /\ UNCHANGED <<ddPath, ddAcl>>

\* ==================================================================
\* impl Read for AlgoResponse (src/algo/algorithm.rs)
\* ==================================================================

VARIABLES
    rdResult,   \* the result of the AlgoResponse that is read
    rdReads     \* the read() calls so far: buffer length, count returned,
                \* buffer afterwards

\* The longest buffer and the number of read() calls.
MaxBuf == 3
MaxReads == 2

\* str::as_bytes: the bytes of a text, one token a byte.
as_bytes_of(text) ==
    CASE text = "hello" -> <<"h", "e", "l", "l", "o">>
      [] text = "1" -> <<"1">>
      [] text = "true" -> <<"t", "r", "u", "e">>
      [] text = "" -> <<>>
      [] text = "null" -> <<"n", "u", "l", "l">>
      [] text = "[5,41]" -> <<"[", "5", ",", "4", "1", "]">>
      [] text = "{}" -> <<"{", "}">>
      [] text = "\"hello\"" -> <<"\"", "h", "e", "l", "l", "o", "\"">>
      [] text = "\"1\"" -> <<"\"", "1", "\"">>
      [] text = "\"true\"" -> <<"\"", "t", "r", "u", "e", "\"">>
      [] text = "\"\"" -> <<"\"", "\"">>
      [] text = "\"aGk=\"" -> <<"\"", "a", "G", "k", "=", "\"">>

\* The bytes of a byte string written in hex.
bytes_of(hex) ==
    CASE hex = "" -> <<>>
      [] hex = "00ff" -> <<"00", "ff">>
      [] hex = "6869" -> <<"68", "69">>

\* The bytes read() writes for a result: s.as_bytes(), s.to_string().as_bytes()
\* or bytes.
ResultBytes(result) ==
    CASE result.variant = "Text" -> as_bytes_of(result.val.v)
      [] result.variant = "Json" -> as_bytes_of(json_encode(result.val))
      [] result.variant = "Binary" -> bytes_of(result.val.v)

\* impl Write for &mut [u8]: as much of data as fits is copied to the front of
\* the slice; the count copied is returned.
slice_write(slice, data) ==
    LET amt == IF Len(data) <= Len(slice) THEN Len(data) ELSE Len(slice)
    IN  [n |-> amt, buf |-> SubSeq(data, 1, amt) \o SubSeq(slice, amt + 1, Len(slice))]

\* Mutant: nothing is copied unless the whole result fits.
AlgoResponseReadWhole(result, buf) ==
    IF Len(ResultBytes(result)) <= Len(buf)
    THEN slice_write(buf, ResultBytes(result))
    ELSE [n |-> 0, buf |-> buf]

\* <AlgoResponse as Read>::read
AlgoResponseRead(result, buf) == slice_write(buf, ResultBytes(result))

readVars == <<rdResult, rdReads>>

\* No response is being read (the state of the other specifications).
ReadIdle ==
    /\ rdResult = Json(JsonNull)
    /\ rdReads = <<>>

\* Some response.
ReadInit ==
    /\ rdResult \in AlgoInputs
    /\ rdReads = <<>>

\* A buffer of the given length, not yet written.
BlankBuf(len) == [i \in 1..len |-> "_"]

\* response.read(&mut buf)
ReadCall ==
    /\ Len(rdReads) < MaxReads
    /\ \E len \in 0..MaxBuf :
            rdReads' = Append(rdReads,
                              [len |-> len,
                               n |-> AlgoResponseRead(rdResult, BlankBuf(len)).n,
                               buf |-> AlgoResponseRead(rdResult, BlankBuf(len)).buf])
    /\ UNCHANGED rdResult

\* ==================================================================
\* Service::decode_to_result (src/lib.rs) and Collection::show
\* (src/collection.rs)
\* ==================================================================

VARIABLES
    lgOp,    \* the helper called last: "none", "decode_to_result" or "show"
    lgOut    \* its type parameter, the body it was given and its result

\* The values of the `marker` and `result` fields of a body.
MarkerFields == {Absent, JsonNull, JsonString("m1"), [tag |-> "number", v |-> "1"]}
LegacyResultFields ==
    {Absent, JsonString("ok"), [tag |-> "number", v |-> "1"], [tag |-> "object", v |-> "deleted"]}

\* A response body: a JSON object with its top-level fields `error`,
\* `stacktrace`, `marker` and `result`, a JSON value that is no object (kind
\* "value"), or no JSON at all (kind "garbage").
LegacyOther(kind) ==
    [kind |-> kind, error |-> Absent, stacktrace |-> Absent, marker |-> Absent, result |-> Absent]
LegacyBodies ==
    [kind : {"object"}, error : ErrorFields, stacktrace : StacktraceFields,
     marker : MarkerFields, result : LegacyResultFields]
        \cup {LegacyOther("value"), LegacyOther("garbage")}

\* The result types the helpers decode into.
ResultTypes == {"CollectionShow", "CollectionFileAdded", "CollectionDeleted"}

\* json::decode::<T> succeeds: CollectionShow has optional fields only,
\* CollectionFileAdded { result: String }, CollectionDeleted { result:
\* DeletedResult { deleted: u64 } }.
json_decode(T, body) ==
    /\ body.kind = "object"
    /\ CASE T = "CollectionShow" -> body.marker.tag \in {"absent", "null", "string"}
         [] T = "CollectionFileAdded" -> body.result.tag = "string"
         [] T = "CollectionDeleted" -> body.result.tag = "object"

\* What a helper returns.
LegacyOk(T) == [ok |-> TRUE, kind |-> T, error |-> "", context |-> LegacyOther("none")]
LegacyErr(kind, error, context) ==
    [ok |-> FALSE, kind |-> kind, error |-> error, context |-> context]

\* Mutant: the error envelope is tried first.
decode_to_resultErrorFirst(T, res_json) ==
    IF ApiErrorResponse(res_json)
    THEN LegacyErr("ApiError", decode_str_ApiErrorResponse(res_json).val.v, LegacyOther("none"))
    ELSE IF json_decode(T, res_json)
         THEN LegacyOk(T)
         ELSE LegacyErr("DecoderErrorWithContext", "", res_json)

\* Service::decode_to_result::<T>
decode_to_result(T, res_json) ==
    IF json_decode(T, res_json)
    THEN LegacyOk(T)
    ELSE IF ApiErrorResponse(res_json)
         THEN LegacyErr("ApiError", decode_str_ApiErrorResponse(res_json).val.v,
                        LegacyOther("none"))
         ELSE LegacyErr("DecoderErrorWithContext", "", res_json)

\* What the server answers to the GET of show: whether the request and the
\* reading of the body succeed, and the body.
ShowReplies ==
    [send : {"ok"}, read : {"ok"}, body : LegacyBodies]
        \cup {[send |-> "err", read |-> "ok", body |-> LegacyOther("none")],
              [send |-> "ok", read |-> "err", body |-> LegacyOther("none")]}

\* Collection::show
show(reply) ==
    IF reply.send # "ok" THEN LegacyErr("HttpError", "", LegacyOther("none"))
    ELSE IF reply.read # "ok" THEN LegacyErr("IoError", "", LegacyOther("none"))
    ELSE IF json_decode("CollectionShow", reply.body)
         THEN LegacyOk("CollectionShow")
         ELSE IF ApiErrorResponse(reply.body)
              THEN LegacyErr("AlgorithmiaApiError",
                             decode_str_ApiErrorResponse(reply.body).val.v,
                             LegacyOther("none"))
              ELSE LegacyErr("DecoderErrorWithContext", "", reply.body)

legacyVars == <<lgOp, lgOut>>

\* The record of a call.
LegacyOut(T, read, body, res) == [T |-> T, read |-> read, body |-> body, res |-> res]
NoLegacyOut ==
    LegacyOut("none", FALSE, LegacyOther("none"), LegacyErr("none", "", LegacyOther("none")))

\* No helper has been called (the state of the other specifications).
LegacyIdle ==
    /\ lgOp = "none"
    /\ lgOut = NoLegacyOut

LegacyInit == LegacyIdle

\* The types decode_to_result is called with (collection.rs).
DecodeToResultTypes == {"CollectionFileAdded", "CollectionDeleted"}

\* Service::decode_to_result::<T>(res_json)
LegacyDecodeToResult ==
    \E T \in DecodeToResultTypes, res_json \in LegacyBodies :
        /\ lgOp' = "decode_to_result"
        /\ lgOut' = LegacyOut(T, TRUE, res_json, decode_to_result(T, res_json))

\* collection.show()
LegacyShow ==
    \E reply \in ShowReplies :
        /\ lgOp' = "show"
        /\ lgOut' = LegacyOut("CollectionShow", reply.send = "ok" /\ reply.read = "ok",
                              reply.body, show(reply))

\* ==================================================================
\* Specifications
\* ==================================================================

vars == <<listVars, applyVars, fromStrVars, payloadVars, decodedVars, fetchVars, dirVars, readVars, legacyVars>>

\* Iterating one DirectoryListing: a call of next() all of whose requests
\* succeed, or one of whose requests fails.
NextOk ==
    Next_(0, "ok") /\ UNCHANGED <<applyVars, fromStrVars, payloadVars, decodedVars, fetchVars, dirVars, readVars, legacyVars>>

NextFail ==
    /\ \E failAt \in 1..MaxPages, failKind \in FetchErrors :
            /\ Next_(failAt, failKind)
            /\ Failed(fetchLog') # Failed(fetchLog)
    /\ UNCHANGED <<applyVars, fromStrVars, payloadVars, decodedVars, fetchVars, dirVars, readVars, legacyVars>>

ListNext == NextOk \/ NextFail

\* A fresh iterator; nothing else is in use.
ListingInit == ListInit /\ ApplyIdle /\ FromStrIdle /\ PayloadIdle /\ DecodedIdle /\ FetchIdle /\ DirIdle /\ ReadIdle /\ LegacyIdle

SpecListing == ListingInit /\ [][ListNext]_vars

\* One call of EntryPoint::apply on a Text, a Json or a Binary input.
ApplyText ==
    ApplyOn("Text") /\ UNCHANGED <<listVars, fromStrVars, payloadVars, decodedVars, fetchVars, dirVars, readVars, legacyVars>>

ApplyJson ==
    ApplyOn("Json") /\ UNCHANGED <<listVars, fromStrVars, payloadVars, decodedVars, fetchVars, dirVars, readVars, legacyVars>>

ApplyBytes ==
    ApplyOn("Binary") /\ UNCHANGED <<listVars, fromStrVars, payloadVars, decodedVars, fetchVars, dirVars, readVars, legacyVars>>

ApplyNext == ApplyText \/ ApplyJson \/ ApplyBytes

\* A handler and an input; nothing else is in use.
DispatchInit == ListIdle /\ ApplyInit /\ FromStrIdle /\ PayloadIdle /\ DecodedIdle /\ FetchIdle /\ DirIdle /\ ReadIdle /\ LegacyIdle

SpecApply == DispatchInit /\ [][ApplyNext]_vars

\* One call of AlgoResponse::from_str.
FromStrNext ==
    FromStrCall /\ UNCHANGED <<listVars, applyVars, payloadVars, decodedVars, fetchVars, dirVars, readVars, legacyVars>>

\* A response body; nothing else is in use.
DecodeInit == ListIdle /\ ApplyIdle /\ FromStrInit /\ PayloadIdle /\ DecodedIdle /\ FetchIdle /\ DirIdle /\ ReadIdle /\ LegacyIdle

SpecFromStr == DecodeInit /\ [][FromStrNext]_vars

\* One operation on a payload: its views as an input, its views as the result
\* of a response, or a call of pipe with it.
ViewInput ==
    InputViews /\ UNCHANGED <<listVars, applyVars, fromStrVars, decodedVars, fetchVars, dirVars, readVars, legacyVars>>

ViewResponse ==
    ResponseViews /\ UNCHANGED <<listVars, applyVars, fromStrVars, decodedVars, fetchVars, dirVars, readVars, legacyVars>>

PipeCall ==
    PipeInput /\ UNCHANGED <<listVars, applyVars, fromStrVars, decodedVars, fetchVars, dirVars, readVars, legacyVars>>

PipeChained ==
    PipeOutput /\ UNCHANGED <<listVars, applyVars, fromStrVars, decodedVars, fetchVars, dirVars, readVars, legacyVars>>

PayloadNext == ViewInput \/ ViewResponse \/ PipeCall \/ PipeChained

\* A payload; nothing else is in use.
PayloadOnlyInit == ListIdle /\ ApplyIdle /\ FromStrIdle /\ PayloadInit /\ DecodedIdle /\ FetchIdle /\ DirIdle /\ ReadIdle /\ LegacyIdle

SpecPayload == PayloadOnlyInit /\ [][PayloadNext]_vars

\* One call of apply on a DecodedEntryPoint handler.
DecodedText ==
    DecodedApplyOn("Text") /\ UNCHANGED <<listVars, applyVars, fromStrVars, payloadVars, fetchVars, dirVars, readVars, legacyVars>>

DecodedJson ==
    DecodedApplyOn("Json") /\ UNCHANGED <<listVars, applyVars, fromStrVars, payloadVars, fetchVars, dirVars, readVars, legacyVars>>

DecodedBytes ==
    DecodedApplyOn("Binary") /\ UNCHANGED <<listVars, applyVars, fromStrVars, payloadVars, fetchVars, dirVars, readVars, legacyVars>>

DecodedNext == DecodedText \/ DecodedJson \/ DecodedBytes

\* A decoding handler and an input; nothing else is in use.
DecodedOnlyInit == ListIdle /\ ApplyIdle /\ FromStrIdle /\ PayloadIdle /\ DecodedInit /\ FetchIdle /\ DirIdle /\ ReadIdle /\ LegacyIdle

SpecDecoded == DecodedOnlyInit /\ [][DecodedNext]_vars

\* One request for a directory page or for a file.
FetchDirectory ==
    DirFetch /\ UNCHANGED <<listVars, applyVars, fromStrVars, payloadVars, decodedVars, dirVars, readVars, legacyVars>>

FetchFile ==
    FileGet /\ UNCHANGED <<listVars, applyVars, fromStrVars, payloadVars, decodedVars, dirVars, readVars, legacyVars>>

FetchNext == FetchDirectory \/ FetchFile

\* A response; nothing else is in use.
FetchOnlyInit == ListIdle /\ ApplyIdle /\ FromStrIdle /\ PayloadIdle /\ DecodedIdle /\ FetchInit /\ DirIdle /\ ReadIdle /\ LegacyIdle

SpecFetch == FetchOnlyInit /\ [][FetchNext]_vars

\* One operation on a directory handle.
ChildOf ==
    DirChild /\ UNCHANGED <<listVars, applyVars, fromStrVars, payloadVars, decodedVars, fetchVars, readVars, legacyVars>>

AclOf ==
    DirAcl /\ UNCHANGED <<listVars, applyVars, fromStrVars, payloadVars, decodedVars, fetchVars, readVars, legacyVars>>

CreateDir ==
    DirCreate /\ UNCHANGED <<listVars, applyVars, fromStrVars, payloadVars, decodedVars, fetchVars, readVars, legacyVars>>

DirNext == ChildOf \/ AclOf \/ CreateDir

\* A directory handle and an ACL; nothing else is in use.
DirOnlyInit == ListIdle /\ ApplyIdle /\ FromStrIdle /\ PayloadIdle /\ DecodedIdle /\ FetchIdle /\ DirInit /\ ReadIdle /\ LegacyIdle

SpecDir == DirOnlyInit /\ [][DirNext]_vars

\* The caller goes on calling next() and no request fails: a call is
\* eventually made as long as it would change something.
SpecListingFair == ListingInit /\ [][NextOk]_vars /\ WF_vars(NextOk)

\* One call of read() on a response.
ReadNext ==
    ReadCall /\ UNCHANGED <<listVars, applyVars, fromStrVars, payloadVars, decodedVars, fetchVars, dirVars, legacyVars>>

\* A response; nothing else is in use.
ReadOnlyInit == ListIdle /\ ApplyIdle /\ FromStrIdle /\ PayloadIdle /\ DecodedIdle /\ FetchIdle /\ DirIdle /\ ReadInit /\ LegacyIdle

SpecRead == ReadOnlyInit /\ [][ReadNext]_vars

\* A call of decode_to_result.
DecodeBody ==
    LegacyDecodeToResult /\ UNCHANGED <<listVars, applyVars, fromStrVars, payloadVars, decodedVars, fetchVars, dirVars, readVars>>

\* A call of Collection::show.
ShowCollection ==
    LegacyShow /\ UNCHANGED <<listVars, applyVars, fromStrVars, payloadVars, decodedVars, fetchVars, dirVars, readVars>>

LegacyNext == DecodeBody \/ ShowCollection

\* Nothing is in use.
LegacyOnlyInit == ListIdle /\ ApplyIdle /\ FromStrIdle /\ PayloadIdle /\ DecodedIdle /\ FetchIdle /\ DirIdle /\ ReadIdle /\ LegacyInit

SpecLegacy == LegacyOnlyInit /\ [][LegacyNext]_vars

\* ==================================================================
\* Properties of the directory listing (SpecListing)
\* ==================================================================

\* The items of one page in the order next() is to yield them.
PageItems(ds) ==
    [i \in 1..Len(ds.folders) |-> DirItem(ds.folders[i])]
        \o [i \in 1..Len(ds.files) |-> FileItem(ds.files[i])]

\* The items of pages p, p+1, ... of a chain, page after page.
RECURSIVE ChainItems(_, _)
ChainItems(chain, p) ==
    IF p > Len(chain) THEN <<>> ELSE PageItems(chain[p]) \o ChainItems(chain, p + 1)

\* s is an initial part of t.
IsPrefix(s, t) == Len(s) <= Len(t) /\ SubSeq(t, 1, Len(s)) = s

\* The page an item was listed on.
PageOf(item) == item.name[2]

\* No request has failed so far.
NoFailure == Failed(fetchLog) = {}

\* C1: with no fetch failure, the items yielded so far are an initial part of
\* the chain's entries taken page after page (each page's folders, then its
\* files, in the server's order), and once next() has returned None they are
\* all of them: N+M items, none dropped, duplicated or re-ordered.
C1_EveryEntryOnceInOrder ==
    NoFailure =>
        /\ IsPrefix(out, ChainItems(pages, 1))
        /\ ret = NoneRet => out = ChainItems(pages, 1)

\* C1 witness: a listing of several pages, with a page boundary between files
\* and folders, has been iterated to its end.
C1_Witness ==
    /\ NoFailure
    /\ ret = NoneRet
    /\ Len(pages) >= 2
    /\ pages[1].files # <<>>
    /\ pages[2].folders # <<>>
    /\ Len(out) >= 4

\* C2 (as stated): no Dir item is yielded after a File item, whatever the
\* pages.
C2_NoDirAfterFile ==
    \A i, j \in 1..Len(out) :
        (i < j /\ out[i].kind = "File") => out[j].kind # "Dir"

\* C2 (amended): a Dir item yielded after a File item belongs to a later page
\* than that file: within one page every folder comes before every file.
C2_DirsBeforeFilesOfSamePage ==
    \A i, j \in 1..Len(out) :
        (i < j /\ out[i].kind = "File" /\ out[j].kind = "Dir")
            => PageOf(out[j]) > PageOf(out[i])

\* C2 witness: a page with two folders and a file has been yielded, the
\* folders first.
C2_Witness ==
    \E i \in 1..Len(out) :
        /\ i + 2 <= Len(out)
        /\ out[i].kind = "Dir"
        /\ out[i + 1].kind = "Dir"
        /\ out[i + 2].kind = "File"
        /\ PageOf(out[i]) = PageOf(out[i + 2])

\* C3: once next() has returned None, the next call returns None again,
\* issues no request and yields nothing.
C3_ExhaustionIsStable ==
    [][ret = NoneRet =>
          (ret' = NoneRet /\ fetchLog' = fetchLog /\ out' = out /\ callFetches' = 0)]_vars

\* C3 witness: next() has returned None after two pages and some items.
C3_Witness ==
    /\ ret = NoneRet
    /\ query_count >= 2
    /\ marker = NoMarker
    /\ out # <<>>

\* C4 (as stated): after an Err item no Ok item is yielded.
C4_NoEntryAfterError ==
    \A i, j \in 1..Len(out) :
        (i < j /\ out[i].kind = "Err") => out[j].kind \notin {"Dir", "File"}

\* ==================================================================
\* Properties of EntryPoint::apply (SpecApply)
\* ==================================================================

\* apply() has run.
Applied == apResult # NotRun

\* The entry point reports UnsupportedInput: it is not overridden, or its
\* body returns that error.
Unsupports(ep) == apHandler[ep] \in {"default", "unsupported"}

\* The calls of entry point ep that apply() made.
CallsOf(ep) == {i \in 1..Len(apCalls) : apCalls[i].ep = ep}

\* C5: for a Text(s) input whose apply_str reports UnsupportedInput, apply_json
\* is called exactly once, with the string-tagged JSON value s, and its result
\* is what apply() returns; a handler with apply_json only succeeds.
C5_TextFallsBackToJsonString ==
    (Applied /\ apInput.variant = "Text" /\ Unsupports("apply_str")) =>
        /\ Cardinality(CallsOf("apply_json")) = 1
        /\ \A i \in CallsOf("apply_json") :
              apCalls[i].arg = [tag |-> "string", v |-> apInput.val.v]
        /\ apResult = CallEntry(apHandler, "apply_json", [tag |-> "string", v |-> apInput.val.v])
        /\ apHandler["apply_json"] = "ok" => apResult.tag = "Ok"

\* C5 witness: a handler with apply_json only has been applied to Text("1").
C5_Witness ==
    /\ Applied
    /\ apInput = Text("1")
    /\ apHandler = [ep \in EntryPoints |-> IF ep = "apply_json" THEN "ok" ELSE "default"]
    /\ apResult.tag = "Ok"

\* C6: for a Json input whose apply_json reports UnsupportedInput, apply_str is
\* called (once, with the value's string, and its result returned) if the
\* value is string-tagged; otherwise apply_str is not called and apply()
\* returns UnsupportedInput.
C6_JsonFallsBackOnlyForStrings ==
    (Applied /\ apInput.variant = "Json" /\ Unsupports("apply_json")) =>
        IF apInput.val.tag = "string"
        THEN /\ Cardinality(CallsOf("apply_str")) = 1
             /\ \A i \in CallsOf("apply_str") :
                   apCalls[i].arg = [tag |-> "&str", v |-> apInput.val.v]
             /\ apResult = CallEntry(apHandler, "apply_str", [tag |-> "&str", v |-> apInput.val.v])
        ELSE /\ CallsOf("apply_str") = {}
             /\ apResult.tag = "Err"
             /\ apResult.kind = "UnsupportedInput"

\* C6 witness: a handler with apply_str only has been applied to the JSON
\* number 1 and has failed with UnsupportedInput.
C6_Witness ==
    /\ Applied
    /\ apInput.variant = "Json"
    /\ apInput.val.tag = "number"
    /\ apHandler = [ep \in EntryPoints |-> IF ep = "apply_str" THEN "ok" ELSE "default"]
    /\ apResult.kind = "UnsupportedInput"

\* C7: for a Binary input apply_bytes is the only entry point called, and a
\* handler that does not override it gets UnsupportedInput.
C7_BinaryHasNoFallback ==
    (Applied /\ apInput.variant = "Binary") =>
        /\ apCalls = <<[ep |-> "apply_bytes", arg |-> apInput.val]>>
        /\ apHandler["apply_bytes"] = "default" =>
              (apResult.tag = "Err" /\ apResult.kind = "UnsupportedInput")

\* C7 witness: a handler with apply_str and apply_json has been applied to a
\* Binary input.
C7_Witness ==
    /\ Applied
    /\ apInput.variant = "Binary"
    /\ apHandler = [ep \in EntryPoints |-> IF ep = "apply_bytes" THEN "default" ELSE "ok"]
    /\ apResult.kind = "UnsupportedInput"

\* C8: when the first entry point succeeds or fails with an error other than
\* UnsupportedInput, it is the only call and its result is returned as it is;
\* when a fallback call is made, its result is returned as it is.
C8_OnlyUnsupportedFallsBack ==
    Applied =>
        /\ apCalls # <<>>
        /\ ~Unsupports(apCalls[1].ep) =>
              /\ Len(apCalls) = 1
              /\ apResult = CallEntry(apHandler, apCalls[1].ep, apCalls[1].arg)
        /\ Len(apCalls) >= 2 =>
              apResult = CallEntry(apHandler, apCalls[Len(apCalls)].ep, apCalls[Len(apCalls)].arg)

\* C8 witness: apply_str has failed with another error of the library on a
\* Text input while apply_json would have succeeded.
C8_Witness ==
    /\ Applied
    /\ apInput.variant = "Text"
    /\ apHandler["apply_str"] = "lib_err"
    /\ apHandler["apply_json"] = "ok"
    /\ apResult.kind = "MismatchedContentType"

\* C9: apply() calls at most two entry points, each at most once, the first
\* being the one of the input's variant; when the fallback reports
\* UnsupportedInput too, UnsupportedInput is returned.
C9_AtMostOneFallback ==
    Applied =>
        /\ Len(apCalls) \in {1, 2}
        /\ \A ep \in EntryPoints : Cardinality(CallsOf(ep)) <= 1
        /\ apCalls[1].ep = CASE apInput.variant = "Text" -> "apply_str"
                             [] apInput.variant = "Json" -> "apply_json"
                             [] OTHER -> "apply_bytes"
        /\ (Len(apCalls) = 2 /\ Unsupports(apCalls[2].ep)) =>
              (apResult.tag = "Err" /\ apResult.kind = "UnsupportedInput")

\* C9 witness: both the first entry point and the fallback have reported
\* UnsupportedInput.
C9_Witness ==
    /\ Applied
    /\ Len(apCalls) = 2
    /\ Unsupports(apCalls[1].ep)
    /\ Unsupports(apCalls[2].ep)
    /\ apResult.kind = "UnsupportedInput"

\* ==================================================================
\* Properties of AlgoResponse::from_str (SpecFromStr)
\* ==================================================================

\* from_str has run.
Decoded == frResult # NotDecoded

\* C10: a body that decodes as an error envelope (a JSON object whose `error`
\* is a string and whose `stacktrace` is absent, null or a string) gives Err
\* with that error message, whatever its `metadata` and `result`.
C10_ErrorEnvelopeFirst ==
    (/\ Decoded
     /\ frBody.kind = "object"
     /\ frBody.error.tag = "string"
     /\ frBody.stacktrace.tag \in {"absent", "null", "string"}) =>
        /\ frResult.tag = "Err"
        /\ frResult.kind = "Api"
        /\ frResult.detail = frBody.error.v

\* C10 witness: a body with `error` "boom" that also carries a well-formed
\* json `metadata` and a `result` has been decoded.
C10_Witness ==
    /\ Decoded
    /\ frBody.kind = "object"
    /\ frBody.error = [tag |-> "string", v |-> "boom"]
    /\ frBody.stacktrace = Absent
    /\ frBody.metadata = MetadataObject("json")
    /\ frBody.result.tag = "array"
    /\ frResult.kind = "Api"

\* The body decodes as an error envelope.
ErrorEnvelope ==
    /\ frBody.kind = "object"
    /\ frBody.error.tag = "string"
    /\ frBody.stacktrace.tag \in {"absent", "null", "string"}

\* The known content types.
KnownContentTypes == {"void", "json", "text", "binary"}

\* C11: whenever from_str succeeds, the body's `metadata` is the returned
\* metadata and its content_type fixes the result: "void" gives Json(null)
\* whatever the body's `result`; "json" gives Json of the body's `result`;
\* "text" gives Text of the string that `result` is; "binary" gives Binary of
\* the base64 decoding of the string that `result` is.
C11_ContentTypeFixesResult ==
    (Decoded /\ frResult.tag = "Ok") =>
        /\ frBody.kind = "object"
        /\ frBody.metadata.tag = "metadata"
        /\ frResult.content_type = frBody.metadata.v
        /\ CASE frBody.metadata.v = "void" ->
                    frResult.variant = "Json" /\ frResult.val = JsonNull
             [] frBody.metadata.v = "json" ->
                    /\ frResult.variant = "Json"
                    /\ frBody.result # Absent
                    /\ frResult.val = frBody.result
             [] frBody.metadata.v = "text" ->
                    /\ frResult.variant = "Text"
                    /\ frBody.result.tag = "string"
                    /\ frResult.val = StrArg(frBody.result.v)
             [] frBody.metadata.v = "binary" ->
                    /\ frResult.variant = "Binary"
                    /\ frBody.result.tag = "string"
                    /\ base64_decode(frBody.result.v).some
                    /\ frResult.val = base64_decode(frBody.result.v).val
             [] OTHER -> FALSE

\* C12: a body that is no error envelope and whose `metadata` names a content
\* type other than void, json, text and binary gives Err(InvalidContentType)
\* carrying that content type, with or without a `result`.
C12_UnknownContentTypeIsInvalid ==
    (/\ Decoded
     /\ ~ErrorEnvelope
     /\ frBody.kind = "object"
     /\ frBody.metadata.tag = "metadata"
     /\ frBody.metadata.v \notin KnownContentTypes) =>
        frResult = ErrResponse("InvalidContentType", frBody.metadata.v)

\* C13: a parsable body that is no error envelope and has no `metadata` gives
\* the missing-field error for "metadata" whatever else it holds, and one whose
\* content type is json, text or binary and that has no `result` gives the
\* missing-field error for "result".
C13_MissingFieldByName ==
    (Decoded /\ frBody.kind # "garbage" /\ ~ErrorEnvelope) =>
        /\ frBody.metadata = Absent =>
                frResult = ErrResponse("MissingField", "metadata")
        /\ (/\ frBody.metadata.tag = "metadata"
            /\ frBody.metadata.v \in {"json", "text", "binary"}
            /\ frBody.result = Absent) =>
                frResult = ErrResponse("MissingField", "result")

\* C14: a body that is no error envelope, whose content type is text or binary
\* and whose `result` is present but no string gives
\* Err(MismatchedContentType) naming that content type; a Text or Binary result
\* is only ever made of a `result` that is a string.
C14_NonStringResultIsMismatch ==
    /\ (/\ Decoded
        /\ ~ErrorEnvelope
        /\ frBody.kind = "object"
        /\ frBody.metadata.tag = "metadata"
        /\ frBody.metadata.v \in {"text", "binary"}
        /\ frBody.result # Absent
        /\ frBody.result.tag # "string") =>
            frResult = ErrResponse("MismatchedContentType", frBody.metadata.v)
    /\ (Decoded /\ frResult.variant \in {"Text", "Binary"}) =>
            (IF frBody.result # Absent THEN frBody.result
             ELSE frBody.nested_result).tag = "string"

\* C14 witness: a text body whose `result` is the number 1 has been refused,
\* and a text body whose `result` is a string has been decoded.
C14_Witness ==
    /\ Decoded
    /\ ~ErrorEnvelope
    /\ frBody.metadata = MetadataObject("text")
    /\ frBody.result = [tag |-> "number", v |-> "1"]
    /\ frResult = ErrResponse("MismatchedContentType", "text")

\* ==================================================================
\* Properties of the payload views and of pipe (SpecPayload)
\* ==================================================================

\* The Content-Type and the body pipe has to send for a payload.
MimeOf(value) ==
    CASE value.variant = "Text" -> "text/plain"
      [] value.variant = "Json" -> "application/json"
      [] value.variant = "Binary" -> "application/octet-stream"
BodyOf(value) ==
    IF value.variant = "Json" THEN StrArg(json_encode(value.val)) ELSE value.val

\* C15: for every text s, the JSON view of Text(s) is a JSON string, and the
\* text view of the Json input made of it is exactly s.
C15_TextRoundTripsThroughJson ==
    (pvOp = "as" /\ pvValue.variant = "Text") =>
        /\ pvOut.json.some
        /\ pvOut.json.val.tag = "string"
        /\ pvOut.back = Some(pvValue.val)

\* C15 witness: the text "1", which is also the text of a JSON number, has
\* been read back from its JSON view.
C15_Witness ==
    /\ pvOp = "as"
    /\ pvValue = Text("1")
    /\ pvOut.json = Some(JsonString("1"))
    /\ pvOut.back = Some(StrArg("1"))

\* C16: for an input (as_*) and for a response (into_*) alike, the text view
\* is present exactly for Text and for Json holding a string, the JSON view
\* exactly for Text and Json, and the bytes view exactly for Binary.
C16_ViewsByVariant ==
    (pvOp \in {"as", "into"}) =>
        /\ pvOut.text.some <=>
                \/ pvValue.variant = "Text"
                \/ pvValue.variant = "Json" /\ pvValue.val.tag = "string"
        /\ pvOut.json.some <=> pvValue.variant \in {"Text", "Json"}
        /\ pvOut.bytes.some <=> pvValue.variant = "Binary"

\* C16 witness: a response whose result is the JSON string "hello" has given
\* its text and JSON views and no bytes view.
C16_Witness ==
    /\ pvOp = "into"
    /\ pvValue = Json(JsonString("hello"))
    /\ pvOut.text = Some(StrArg("hello"))
    /\ pvOut.json.some
    /\ ~pvOut.bytes.some

\* C17: a result piped into the next call is sent with the content type of
\* its own variant and with its own value as the body: the conversion to an
\* input keeps variant and value.
C17_PipedOutputKeepsVariant ==
    (pvOp = "pipe_output") =>
        /\ pvClient = "valid" => pvOut.requests # <<>>
        /\ \A i \in 1..Len(pvOut.requests) :
                /\ pvOut.requests[i].content_type = MimeOf(pvValue)
                /\ pvOut.requests[i].body = BodyOf(pvValue)

\* C17 witness: the text result "hello" has been piped as text/plain.
C17_Witness ==
    /\ pvOp = "pipe_output"
    /\ pvValue = Text("hello")
    /\ pvOut.requests = <<[content_type |-> "text/plain", body |-> StrArg("hello")]>>

\* What C18 says of the one request of a call of pipe.
RequestByVariant(request) ==
    /\ pvValue.variant = "Text" =>
            request = [content_type |-> "text/plain", body |-> pvValue.val]
    /\ pvValue.variant = "Json" =>
            request = [content_type |-> "application/json",
                       body |-> StrArg(json_encode(pvValue.val))]
    /\ pvValue.variant = "Binary" =>
            request = [content_type |-> "application/octet-stream", body |-> pvValue.val]

\* C18 as stated: every call of pipe sends exactly one request; a Text input
\* goes as text/plain with the text as body, a Json input as application/json
\* with its serialisation, a Binary input as application/octet-stream with
\* its bytes.
C18_ExactlyOneRequest ==
    (pvOp = "pipe") =>
        /\ Len(pvOut.requests) = 1
        /\ RequestByVariant(pvOut.requests[1])

\* C18: a call of pipe sends exactly one request when the request URL can be
\* built, whatever the server replies, and none when it cannot (the call then
\* returns that error); the request sent goes as text/plain with the text as
\* body for a Text input, as application/json with the serialisation for a
\* Json input, as application/octet-stream with the bytes for a Binary input.
C18_ContentTypeByVariant ==
    (pvOp = "pipe") =>
        /\ pvClient = "valid" =>
                Len(pvOut.requests) = 1 /\ RequestByVariant(pvOut.requests[1])
        /\ pvClient # "valid" =>
                pvOut.requests = <<>> /\ pvOut.res = ErrResponse("Url", "")

\* C18 witness: the text "true" has been sent as text/plain and the call has
\* returned a decoded response.
C18_Witness ==
    /\ pvOp = "pipe"
    /\ pvValue = Text("true")
    /\ pvOut.requests[1].content_type = "text/plain"
    /\ pvOut.res.tag = "Ok"

\* ==================================================================
\* Properties of DecodedEntryPoint (SpecDecoded)
\* ==================================================================

\* The handler's apply() has returned.
DecodedRan == dcResult # NotRun

\* The JSON an input converts to (Binary converts to none).
JsonOf(input) == IF input.variant = "Text" THEN JsonString(input.val.v) ELSE input.val

\* C19: apply_decoded is invoked at most once, and only with the decoding of
\* the input's JSON form; a Binary input gives UnsupportedInput and an input
\* whose JSON does not decode gives the decoding error, both without invoking
\* apply_decoded; a Text input is decoded as the JSON string wrapping it.
C19_DecodedOnlyAfterDecoding ==
    DecodedRan =>
        /\ Len(dcCalls) <= 1
        /\ dcCalls # <<>> =>
                /\ dcInput.variant # "Binary"
                /\ decode_value(dcType, JsonOf(dcInput)).some
                /\ dcCalls = <<decode_value(dcType, JsonOf(dcInput)).val>>
        /\ dcInput.variant = "Binary" =>
                dcCalls = <<>> /\ dcResult = UnsupportedInput("apply")
        /\ (dcInput.variant # "Binary" /\ ~decode_value(dcType, JsonOf(dcInput)).some) =>
                dcCalls = <<>> /\ dcResult = ErrBox("Decode", "apply")
        /\ (dcInput.variant = "Text" /\ dcType = "String") =>
                dcCalls = <<[tag |-> "String", v |-> dcInput.val.v]>>

\* C19 witness: the text "1" has reached a handler of Strings as the string
\* "1", and apply() has returned what apply_decoded returned.
C19_Witness ==
    /\ DecodedRan
    /\ dcInput = Text("1")
    /\ dcType = "String"
    /\ dcCalls = <<[tag |-> "String", v |-> "1"]>>
    /\ dcResult = OkOutput("apply_decoded", [tag |-> "String", v |-> "1"])

\* ==================================================================
\* Properties of the fetches of one call of next() (SpecListing)
\* ==================================================================

\* Both pending sequences are empty.
Drained == folders = <<>> /\ files = <<>>

\* The page the k-th request of the call just made asked for.
FetchedPage(k) ==
    LET rq == fetchLog'[Len(fetchLog) + k]
    IN  pages[IF rq.marker = NoMarker THEN 1 ELSE rq.marker]

\* C20 as stated: every call of next() issues no fetch or one, and issues one
\* only when both pending sequences are empty.
C20_AtMostOneFetchPerCall ==
    [][/\ callFetches' <= 1
       /\ callFetches' > 0 => Drained]_vars

\* C20: a call of next() issues a fetch only when both pending sequences are
\* empty, and it goes on to a further fetch only after a fetch that succeeded
\* with a page holding no folder and no file but a marker.
C20_FetchOnlyWhenDrained ==
    [][/\ callFetches' = Len(fetchLog') - Len(fetchLog)
       /\ callFetches' > 0 => Drained
       /\ \A k \in 1..(callFetches' - 1) :
            /\ fetchLog'[Len(fetchLog) + k].fault = "ok"
            /\ FetchedPage(k).folders = <<>>
            /\ FetchedPage(k).files = <<>>
            /\ FetchedPage(k).marker # NoMarker]_vars

\* C20 witness: one call has fetched an empty page carrying a marker and then
\* the page after it, and has returned an entry of that page.
C20_Witness ==
    /\ callFetches = 2
    /\ ret.kind \in {"Dir", "File"}
    /\ PageOf(ret) = 2
    /\ pages[1].folders = <<>>
    /\ pages[1].files = <<>>

\* ==================================================================
\* Properties of the mapping of a response (SpecFetch)
\* ==================================================================

\* get_directory has returned after a response arrived.
DirFetched == ftOp = "get_directory" /\ ftResponse.send = "ok"

\* The four cases of the mapping of a page fetch.
StatusMapping ==
    /\ ftResponse.status = 404 => ftResult = FetchErr("NotFound", "dir.to_url()")
    /\ (is_success(ftResponse.status) /\ ~ftResponse.body.listing) =>
            ftResult = FetchErr("DecodeJson", "directory listing")
    /\ (~is_success(ftResponse.status) /\ ftResponse.status # 404) =>
            ftResult = FetchErr("Api", IF ftResponse.body.envelope THEN "body" ELSE "status")
    /\ ftResult.tag = "Ok" => is_success(ftResponse.status) /\ ftResponse.body.listing

\* C21 as stated: every response of a page fetch is mapped by its status and
\* body alone: 404 to NotFound, a success status with a body that is no
\* listing to the decode error, any other status to the remote error, and Ok
\* only for a success status with a listing body.
C21_StatusAloneMapsResponse == DirFetched => StatusMapping

\* C21: a page fetch maps a response whose body could be read and that is not
\* a success response marked with another kind than "directory" by its status
\* and body: 404 to NotFound, a success status with a body that is no listing
\* to the decode error for "directory listing", any other status to the remote
\* error parsed from the body or made of the status, and Ok only for a success
\* status with a listing body; the other responses give an error too.
C21_StatusMapsReadableResponse ==
    DirFetched =>
        /\ (ftResponse.read = "ok" /\ ~(/\ is_success(ftResponse.status)
                                        /\ ftResponse.data_type \in {"file", "blob"})) =>
                StatusMapping
        /\ ftResult.tag = "Ok" => is_success(ftResponse.status) /\ ftResponse.body.listing

\* C21 witness: a 500 response whose body is an error envelope has been mapped
\* to the error parsed from the body.
C21_Witness ==
    /\ DirFetched
    /\ ftResponse.status = 500
    /\ ftResponse.read = "ok"
    /\ ftResponse.body.envelope
    /\ ftResult = FetchErr("Api", "body")

\* C25: a file download never gives Ok for a response marked as a directory,
\* and gives UnexpectedDataType("file", "directory") when that response has
\* status OK; a page fetch never gives a listing for a success response marked
\* with a kind other than "directory", it gives
\* UnexpectedDataType("directory", that kind).
C25_KindMismatchIsError ==
    /\ (ftOp = "get" /\ ftResponse.send = "ok" /\ ftResponse.data_type = "directory") =>
            /\ ftResult.tag = "Err"
            /\ ftResponse.status = 200 =>
                    ftResult = FetchErr("UnexpectedDataType:file", "directory")
    /\ (/\ DirFetched
        /\ is_success(ftResponse.status)
        /\ ftResponse.data_type \in {"file", "blob"}) =>
            ftResult = FetchErr("UnexpectedDataType:directory", ftResponse.data_type)

\* C25 witness: a page fetch got a 200 response marked "file" whose body is a
\* listing, and refused it.
C25_Witness ==
    /\ DirFetched
    /\ ftResponse.status = 200
    /\ ftResponse.data_type = "file"
    /\ ftResponse.body.listing
    /\ ftResponse.read = "ok"
    /\ ftResult = FetchErr("UnexpectedDataType:directory", "file")

\* ==================================================================
\* Properties of DataAcl, child and create (SpecDir)
\* ==================================================================

\* C22: Private gives read = [], MyAlgorithms gives read = ["algo://.my/*"],
\* Public gives read = ["user://*"], DataAcl::default() gives what
\* MyAlgorithms gives, and no read list has more than one entry.
C22_AclMappingIsFixed ==
    (ddOp = "acl") =>
        /\ ddAcl = "Private" => ddOut.acl.read = <<>>
        /\ ddAcl = "MyAlgorithms" => ddOut.acl.read = <<"algo://.my/*">>
        /\ ddAcl = "Public" => ddOut.acl.read = <<"user://*">>
        /\ ddAcl = "default" => ddOut.acl.read = <<"algo://.my/*">>
        /\ Len(ddOut.acl.read) <= 1

\* C22 witness: Public has been converted.
C22_Witness ==
    /\ ddOp = "acl"
    /\ ddAcl = "Public"
    /\ ddOut.acl = [read |-> <<"user://*">>]

\* C23: child(name) sends nothing and gives the path made of the handle's
\* path, one "/" (none added when the path already ends with one) and name.
C23_ChildAppendsOneSeparator ==
    (ddOp = "child") =>
        /\ ddOut.requests = <<>>
        /\ ddOut.path =
                (IF ddPath[Len(ddPath)] = "/" THEN ddPath ELSE ddPath \o <<"/">>)
                    \o ddOut.arg
        /\ \A i \in 1..(Len(ddOut.path) - 1) :
                ~(ddOut.path[i] = "/" /\ ddOut.path[i + 1] = "/")

\* C23 witness: the child "c" of a directory whose path ends with "/" has
\* been made.
C23_Witness ==
    /\ ddOp = "child"
    /\ ddPath = <<"data", "/", "a", "/", "b", "/">>
    /\ ddOut.path = <<"data", "/", "a", "/", "b", "/", "c">>

RequestedPage(i) ==
    pages[IF fetchLog[i].marker = NoMarker THEN 1 ELSE fetchLog[i].marker]

\* The successful requests before the i-th request of the log.
OkBefore(i) == {j \in 1..(i - 1) : fetchLog[j].fault = "ok"}

\* C26: as long as no fetch fails there are never more fetches than pages,
\* and next() eventually returns None, with as many fetches made as the chain
\* has pages.
C26_TerminatesAfterAllPages ==
    /\ [](NoFailure => Len(fetchLog) <= Len(pages))
    /\ <>(~NoFailure \/ (ret = NoneRet /\ Len(fetchLog) = Len(pages)))

\* C26 witness: next() has returned None after two fetches for a chain of two
\* pages, none of them failed.
C26_Witness ==
    /\ NoFailure
    /\ ret = NoneRet
    /\ Len(pages) = 2
    /\ Len(fetchLog) = 2
    /\ Len(out) >= 2

\* C27: the first fetch carries no marker; every later fetch follows a
\* successful one and carries the marker of the page the most recent successful
\* fetch returned; after a call whose last fetch succeeded the pending folders,
\* the pending files and the marker are those of the fetched page (less the
\* entry the call returned), the marker being none when the page has none.
C27_MarkersThreaded ==
    /\ \A i \in 1..Len(fetchLog) :
            IF i = 1 THEN fetchLog[i].marker = NoMarker
            ELSE /\ OkBefore(i) # {}
                 /\ fetchLog[i].marker = RequestedPage(Max(OkBefore(i))).marker
                 /\ fetchLog[i].marker # NoMarker
    /\ (callFetches > 0 /\ fetchLog[Len(fetchLog)].fault = "ok") =>
            LET ds == RequestedPage(Len(fetchLog))
            IN  /\ marker = ds.marker
                /\ CASE ret.kind = "Dir" ->
                            /\ ret = DirItem(Head(ds.folders))
                            /\ folders = Tail(ds.folders)
                            /\ files = ds.files
                     [] ret.kind = "File" ->
                            /\ ds.folders = <<>>
                            /\ ret = FileItem(Head(ds.files))
                            /\ folders = <<>>
                            /\ files = Tail(ds.files)
                     [] OTHER ->
                            /\ ret = NoneRet
                            /\ ds.folders = <<>> /\ ds.files = <<>>
                            /\ folders = <<>> /\ files = <<>>
                            /\ marker = NoMarker

\* C27 witness: the second page has been fetched with the first page's marker
\* after the first page's entries were handed out; it carries no marker and
\* the stored marker is cleared.
C27_Witness ==
    /\ Len(fetchLog) = 2
    /\ fetchLog[2] = [marker |-> 2, fault |-> "ok"]
    /\ callFetches = 1
    /\ Len(out) >= 2
    /\ marker = NoMarker
    /\ ret.kind = "Dir"
    /\ files # <<>>

\* C28 as stated: a call of next() that returns a failure has issued exactly
\* one request, has left pending folders, pending files and marker as they
\* were, and has incremented query_count by one.
C28_FailureAfterOneRequest ==
    [][ret'.kind = "Err" =>
          /\ callFetches' = 1
          /\ folders' = folders /\ files' = files /\ marker' = marker
          /\ query_count' = query_count + 1]_vars

\* C28: a call of next() returns a failure exactly when its last request
\* failed, and no request of the call follows a failed one; the failed request
\* leaves pending folders, pending files and marker as they were before it
\* (as before the call when it was the call's only request, else those of the
\* empty page fetched just before it), and query_count is incremented once
\* for every request of the call.
C28_FailureIsLastRequest ==
    [][/\ ret'.kind = "Err" <=>
            (callFetches' > 0 /\ fetchLog'[Len(fetchLog')].fault # "ok")
       /\ \A k \in 1..(callFetches' - 1) : fetchLog'[Len(fetchLog) + k].fault = "ok"
       /\ query_count' = query_count + callFetches'
       /\ ret'.kind = "Err" =>
            /\ ret'.err = fetchLog'[Len(fetchLog')].fault
            /\ callFetches' = 1 =>
                    folders' = folders /\ files' = files /\ marker' = marker
            /\ callFetches' > 1 =>
                    /\ folders' = <<>> /\ files' = <<>>
                    /\ marker' = FetchedPage(callFetches' - 1).marker]_vars

\* C28 witness: a call has fetched an empty first page and failed to fetch
\* the second; the marker of the first page is kept.
C28_Witness ==
    /\ ret.kind = "Err"
    /\ callFetches = 2
    /\ query_count = 2
    /\ marker = 2
    /\ folders = <<>>
    /\ files = <<>>

\* ==================================================================
\* Properties of reading a response (SpecRead)
\* ==================================================================

\* The smaller of two numbers.
MinOf(a, b) == IF a <= b THEN a ELSE b

\* C29: every read(buf) returns min(len(buf), len(result)) and leaves the
\* first bytes of the result, that many, at the front of buf, whatever was read
\* before: two reads into buffers of the same length give the same, and a read
\* of a non-empty result into a non-empty buffer never returns 0.
C29_ReadKeepsNoPosition ==
    /\ \A i \in 1..Len(rdReads) :
            /\ rdReads[i].n = MinOf(rdReads[i].len, Len(ResultBytes(rdResult)))
            /\ SubSeq(rdReads[i].buf, 1, rdReads[i].n) =
                    SubSeq(ResultBytes(rdResult), 1, rdReads[i].n)
            /\ Len(rdReads[i].buf) = rdReads[i].len
            /\ (rdReads[i].len > 0 /\ ResultBytes(rdResult) # <<>>) => rdReads[i].n > 0
    /\ \A i, j \in 1..Len(rdReads) :
            rdReads[i].len = rdReads[j].len => rdReads[i] = rdReads[j]

\* C29 witness: "hello" has been read twice into buffers of three bytes, and
\* both reads gave "hel".
C29_Witness ==
    /\ rdResult = Text("hello")
    /\ Len(rdReads) = 2
    /\ rdReads[1] = [len |-> 3, n |-> 3, buf |-> <<"h", "e", "l">>]
    /\ rdReads[2] = rdReads[1]

\* ==================================================================
\* Properties of the legacy decoding helpers (SpecLegacy)
\* ==================================================================

\* The result is an error returned by the API, with the envelope's message.
IsApiError(call) ==
    /\ ~call.res.ok
    /\ call.res.kind \in {"ApiError", "AlgorithmiaApiError"}
    /\ call.res.error = call.body.error.v

\* The result is a decode error that carries the body.
IsDecodeErrorWithBody(call) ==
    /\ ~call.res.ok
    /\ call.res.kind = "DecoderErrorWithContext"
    /\ call.res.context = call.body

\* C30: decode_to_result and Collection::show, given a body, return Ok exactly
\* when the body decodes as the result type (also when it decodes as an error
\* envelope too), an API error exactly when it does not but decodes as an error
\* envelope, and a decode error carrying the body exactly when it decodes as
\* neither.
C30_SuccessFirstDecode ==
    (lgOp # "none" /\ lgOut.read) =>
        /\ lgOut.res.ok <=> json_decode(lgOut.T, lgOut.body)
        /\ lgOut.res.ok => lgOut.res = LegacyOk(lgOut.T)
        /\ IsApiError(lgOut) <=>
                (~json_decode(lgOut.T, lgOut.body) /\ ApiErrorResponse(lgOut.body))
        /\ IsDecodeErrorWithBody(lgOut) <=>
                (~json_decode(lgOut.T, lgOut.body) /\ ~ApiErrorResponse(lgOut.body))

\* C30 witness: decode_to_result::<CollectionFileAdded> was given
\* {"error":"boom","result":"ok"}, which is an error envelope too, and
\* returned Ok.
C30_Witness ==
    /\ lgOp = "decode_to_result"
    /\ lgOut.T = "CollectionFileAdded"
    /\ lgOut.body.error = JsonString("boom")
    /\ lgOut.body.stacktrace = Absent
    /\ lgOut.body.result = JsonString("ok")
    /\ lgOut.res = LegacyOk("CollectionFileAdded")

====
